---- MODULE Spec2Model ----
(***************************************************************************)
(* A model of nbsafety's staleness propagation: the symbol graph           *)
(* (DataSymbol, alias table, namespaces), UpdateProtocol.__call__ and its  *)
(* four recursive traversals, and DataSymbol.refresh.                      *)
(*                                                                         *)
(* The traversals iterate over Python sets, whose order is not fixed, so   *)
(* every traversal is modelled as an explicit call stack: one step picks   *)
(* ANY remaining element of the loop the top frame is in, runs the loop    *)
(* body up to the call it makes, and pushes the callee.  While a protocol  *)
(* invocation is in flight (pc # "idle") no other operation is enabled,    *)
(* so an invocation always runs to its end, refresh included.              *)
(***************************************************************************)
EXTENDS Integers, Sequences, FiniteSets, TLC

\* ---------------------------------------------------------------- bounds
MaxCell == 3      \* evaluation units (cells) a behaviour runs through
MaxOps == 2       \* update invocations of a behaviour
MaxRepeat == 1    \* invocations repeated on top of them
MaxGarbage == 2   \* symbols tombstoned in a behaviour

Syms == 1..4                   \* symbols a graph can hold
Ids == 1..6                    \* object identities (id(obj))
Lexical == 0                   \* a containing scope that is no namespace scope
NoId == 0                      \* None where an identity is expected
Roles == {"collect", "parents", "nschildren", "deps", "refresh"}

VARIABLES
    live,                      \* the symbols that exist
    cell_counter,              \* cell_counter()
    same_cell_exempt,          \* config.no_stale_propagation_for_same_cell_definition
    obj_id,                    \* DataSymbol.obj_id
    cached_obj_id,             \* DataSymbol.cached_obj_id
    aliases,                   \* safety.aliases: identity -> set of symbols
    containing_scope,          \* DataSymbol.containing_scope: Lexical or a namespace's obj_id
    namespaces,                \* keys of safety.namespaces
    cloned_from,               \* NamespaceScope.cloned_from (its obj_id), per namespace
    children,                  \* DataSymbol.children
    disable_warnings,          \* DataSymbol.disable_warnings
    defined_cell_num,          \* DataSymbol.defined_cell_num
    required_cell_num,         \* DataSymbol.required_cell_num
    fresher_ancestors,         \* DataSymbol.fresher_ancestors
    namespace_stale_symbols,   \* DataSymbol.namespace_stale_symbols
    max_defined_timestamp,     \* NamespaceScope.max_defined_timestamp
    updated_symbols,           \* safety.updated_symbols
    pc,                        \* where the invocation in flight stands
    call,                      \* the invocation in flight: its arguments
    seen,                      \* UpdateProtocol.seen
    rseen,                     \* the seen set refresh() hands down
    loop29,                    \* what is left of `for dsym in updated_symbols`
    stack,                     \* the call stack of the traversals
    visits,                    \* history: times a symbol was processed, per role
    pre,                       \* history: the staleness fields when the invocation began
    at_refresh,                \* history: the staleness fields when refresh() was entered
    hist,                      \* history: the invocations completed so far
    parents,                   \* DataSymbol.parents
    tombstone,                 \* DataSymbol._tombstone
    popped,                    \* identities whose safety.aliases entry was popped
    collected,                 \* history: the collect_self_garbage calls made
    stmt,                      \* the TraceStatement being executed, with what it reads
    ts                         \* the TraceState

graph == <<live, same_cell_exempt, containing_scope, namespaces, cloned_from, children,
           disable_warnings>>
ids == <<obj_id, cached_obj_id, aliases>>
fields == <<defined_cell_num, required_cell_num, fresher_ancestors,
            namespace_stale_symbols, max_defined_timestamp>>
machine == <<seen, rseen, stack, visits>>
\* what the garbage collector keeps besides the graph
host == <<parents, tombstone, popped, collected>>
\* the tracer's objects
tracing == <<stmt, ts>>
vars == <<cell_counter, graph, ids, fields, updated_symbols, pc, call, loop29,
          machine, pre, at_refresh, hist, host, tracing>>

\* ------------------------------------------------------------ predicates
IsStaleIn(def, req, nss, s) ==
    IF disable_warnings[s] THEN FALSE
    ELSE def[s] < req[s] \/ nss[s] # {}

\* Fault: disable_warnings is not consulted.
is_stale_with_warnings_ignored(s) ==
    defined_cell_num[s] < required_cell_num[s] \/ namespace_stale_symbols[s] # {}

is_stale(s) ==
    IsStaleIn(defined_cell_num, required_cell_num, namespace_stale_symbols, s)

should_mark_stale(self, updated_dep) ==
    IF disable_warnings[self] THEN FALSE
    ELSE IF updated_dep = self THEN FALSE
    ELSE \/ ~same_cell_exempt
         \/ defined_cell_num[updated_dep] # defined_cell_num[self]

\* NamespaceScope.all_data_symbols_this_indentation(exclude_class=True)
NsMembers(ns) == {s \in live : containing_scope[s] = ns}

\* Fault: the class -> instance edges are followed like any other edge.
all_children(dsym) == children[dsym]

non_class_to_instance_children(dsym) ==
    IF call.sym = dsym THEN children[dsym]
    ELSE {c \in children[dsym] :
            ~ /\ obj_id[c] \in namespaces
              /\ cloned_from[obj_id[c]] # NoId
              /\ cloned_from[obj_id[c]] = obj_id[dsym]}

\* ------------------------------------------------- the traversal machine
Frame(fn, sym, todo, inner) == [fn |-> fn, sym |-> sym, todo |-> todo, inner |-> inner]

Cur == [stack |-> stack, seen |-> seen, rseen |-> rseen,
        def |-> defined_cell_num, req |-> required_cell_num,
        fa |-> fresher_ancestors, nss |-> namespace_stale_symbols,
        mdt |-> max_defined_timestamp, visits |-> visits]

Push(m, f) == [m EXCEPT !.stack = Append(@, f)]
WithTop(m, f) == [m EXCEPT !.stack[Len(m.stack)] = f]
Visit(m, role, s) == [m EXCEPT !.visits[role][s] = @ + 1]

\* A loop element whose body is a `continue` or a call that returns at its
\* seen check does nothing, now or later (seen only grows), so it is dropped
\* from the loop as soon as it is seen; a frame with nothing left to iterate
\* returns, and no function does anything after its loops.
Settle(f, sn) ==
    CASE f.fn = "collect" -> [f EXCEPT !.todo = @ \ sn]
      [] f.fn = "deps" -> [f EXCEPT !.todo = @ \ sn]
      [] f.fn = "nschildren" -> [f EXCEPT !.todo = @ \ sn]
      [] f.fn = "parents" -> [f EXCEPT !.inner = @ \ sn]
      [] f.fn = "refresh" -> [f EXCEPT !.todo = {s \in @ : containing_scope[s] # Lexical}]

Unwind(stk, sn) ==
    LET settled == [i \in 1..Len(stk) |-> Settle(stk[i], sn)]
    IN SelectSeq(settled, LAMBDA f : f.todo # {} \/ f.inner # {})

Commit(m) ==
    /\ stack' = Unwind(m.stack, m.seen)
    /\ seen' = m.seen
    /\ rseen' = m.rseen
    /\ defined_cell_num' = m.def
    /\ required_cell_num' = m.req
    /\ fresher_ancestors' = m.fa
    /\ namespace_stale_symbols' = m.nss
    /\ max_defined_timestamp' = m.mdt
    /\ visits' = m.visits

Top == stack[Len(stack)]
Running(fn) == stack # <<>> /\ Top.fn = fn

\* Fault: the aliases are skipped whatever skip_aliases says.
collect_only_dsym(m, dsym, skip_aliases) ==
    Push(m, Frame("collect", dsym, {dsym}, {}))

\* Fault: the aliases are collected whatever skip_aliases says.
collect_every_alias(m, dsym, skip_aliases) ==
    Push(m, Frame("collect", dsym,
                  {dsym} \cup {a \in live : obj_id[a] = obj_id[dsym]}, {}))

\* ---- UpdateProtocol._collect_updated_symbols
collect_updated_symbols(m, dsym, skip_aliases) ==
    Push(m, Frame("collect", dsym,
                  IF skip_aliases THEN {dsym} ELSE aliases[obj_id[dsym]], {}))

CollectOuter(m, f, dsym_alias) ==
    LET f1 == [f EXCEPT !.todo = @ \ {dsym_alias}]
    IN IF dsym_alias \in m.seen THEN WithTop(m, f1)
       ELSE LET m1 == Visit([m EXCEPT !.seen = @ \cup {dsym_alias}], "collect", dsym_alias)
                sc == containing_scope[dsym_alias]
            IN IF sc = Lexical THEN WithTop(m1, f1)
               ELSE WithTop([m1 EXCEPT !.mdt[sc] = cell_counter],
                            [f1 EXCEPT !.inner = aliases[sc]])

\* Fault: line 56, the recursion into the aliases of the containing namespace,
\* is left out.
CollectInner_without_recursion(m, f, alias) ==
    WithTop([m EXCEPT !.nss[alias] = @ \ {f.sym}], [f EXCEPT !.inner = @ \ {alias}])

CollectInner(m, f, alias) ==
    LET m1 == [m EXCEPT !.nss[alias] = @ \ {f.sym}]
    IN collect_updated_symbols(WithTop(m1, [f EXCEPT !.inner = @ \ {alias}]),
                               alias, FALSE)

\* Fault: the seen check of line 59 is left out.
namespace_parents_unchecked(m, dsym, skip_seen_check) ==
    LET m1 == Visit([m EXCEPT !.seen = @ \cup {dsym}], "parents", dsym)
        sc == containing_scope[dsym]
    IN IF sc = Lexical THEN m1
       ELSE Push(m1, Frame("parents", dsym, aliases[sc], {}))

\* ---- UpdateProtocol._propagate_staleness_to_namespace_parents
propagate_staleness_to_namespace_parents(m, dsym, skip_seen_check) ==
    IF ~skip_seen_check /\ dsym \in m.seen THEN m
    ELSE LET m1 == Visit([m EXCEPT !.seen = @ \cup {dsym}], "parents", dsym)
             sc == containing_scope[dsym]
         IN IF sc = Lexical THEN m1
            ELSE Push(m1, Frame("parents", dsym, aliases[sc], {}))

\* ---- UpdateProtocol._propagate_staleness_to_namespace_children
propagate_staleness_to_namespace_children(m, dsym, skip_seen_check) ==
    IF ~skip_seen_check /\ dsym \in m.seen THEN m
    ELSE LET m1 == Visit([m EXCEPT !.seen = @ \cup {dsym}], "nschildren", dsym)
         IN IF obj_id[dsym] \notin namespaces THEN m1
            ELSE Push(m1, Frame("nschildren", dsym, NsMembers(obj_id[dsym]), {}))

\* ---- UpdateProtocol._propagate_staleness_to_deps
\* The frames of the two calls made when dsym is marked are pushed together:
\* the namespace-parents frame on top (it runs first), the namespace-children
\* frame under it; the entry of the latter only re-adds dsym to seen.
propagate_staleness_to_deps(m, dsym, skip_seen_check) ==
    IF ~skip_seen_check /\ dsym \in m.seen THEN m
    ELSE LET m1 == Visit([m EXCEPT !.seen = @ \cup {dsym}], "deps", dsym)
             m2 == Push(m1, Frame("deps", dsym, non_class_to_instance_children(dsym), {}))
         IN IF dsym \notin updated_symbols /\ should_mark_stale(dsym, call.sym)
            THEN LET m3 == [m2 EXCEPT !.fa[dsym] = @ \cup {call.sym},
                                      !.req[dsym] = cell_counter]
                     m4 == propagate_staleness_to_namespace_children(m3, dsym, TRUE)
                 IN propagate_staleness_to_namespace_parents(m4, dsym, TRUE)
            ELSE m2

ParentsOuter(m, f, containing_alias) ==
    LET m1 == [m EXCEPT !.nss[containing_alias] = @ \cup {f.sym}]
        f1 == [f EXCEPT !.todo = @ \ {containing_alias},
                        !.inner = non_class_to_instance_children(containing_alias)]
    IN propagate_staleness_to_namespace_parents(WithTop(m1, f1), containing_alias, FALSE)

ParentsInner(m, f, child) ==
    propagate_staleness_to_deps(WithTop(m, [f EXCEPT !.inner = @ \ {child}]), child, FALSE)

LoopDeps(m, f, child) ==
    propagate_staleness_to_deps(WithTop(m, [f EXCEPT !.todo = @ \ {child}]), child, FALSE)

\* ---- DataSymbol.refresh and DataSymbol._propagate_refresh_to_namespace_parents
propagate_refresh_to_namespace_parents(m, self) ==
    IF self \in m.rseen THEN m
    ELSE LET m1 == Visit([m EXCEPT !.rseen = @ \cup {self}], "refresh", self)
         IN Push(m1, Frame("refresh", self, aliases[obj_id[self]], {}))

\* Fault: defined_cell_num is not bumped.
refresh_keeps_defined(m, self) ==
    LET m1 == [m EXCEPT !.fa[self] = {},
                        !.req[self] = cell_counter, !.nss[self] = {},
                        !.rseen = {}]
    IN propagate_refresh_to_namespace_parents(m1, self)

\* Fault: fresher_ancestors is not reset.
refresh_keeps_ancestors(m, self) ==
    LET m1 == [m EXCEPT !.def[self] = cell_counter,
                        !.req[self] = cell_counter, !.nss[self] = {},
                        !.rseen = {}]
    IN propagate_refresh_to_namespace_parents(m1, self)

\* Fault: lines 239 and 240 swapped in effect, required_cell_num takes the
\* defined_cell_num the symbol had before the bump.
refresh_required_from_old_defined(m, self) ==
    LET m1 == [m EXCEPT !.fa[self] = {}, !.def[self] = cell_counter,
                        !.req[self] = m.def[self], !.nss[self] = {},
                        !.rseen = {}]
    IN propagate_refresh_to_namespace_parents(m1, self)

refresh(m, self) ==
    LET m1 == [m EXCEPT !.fa[self] = {}, !.def[self] = cell_counter,
                        !.req[self] = cell_counter, !.nss[self] = {},
                        !.rseen = {}]
    IN propagate_refresh_to_namespace_parents(m1, self)

RefreshOuter(m, f, self_alias) ==
    LET f1 == [f EXCEPT !.todo = @ \ {self_alias}]
        sc == containing_scope[self_alias]
    IN IF sc = Lexical THEN WithTop(m, f1)
       ELSE WithTop([m EXCEPT !.mdt[sc] = cell_counter],
                    [f1 EXCEPT !.inner = aliases[sc]])

\* Fault: line 262, the discard of self, is left out.
RefreshInner_no_discard(m, f, alias) ==
    LET stale == IsStaleIn(m.def, m.req, m.nss, alias)
        m1 == [m EXCEPT !.def[alias] = IF stale THEN @ ELSE cell_counter,
                        !.fa[alias] = IF stale THEN @ ELSE {}]
    IN propagate_refresh_to_namespace_parents(
           WithTop(m1, [f EXCEPT !.inner = @ \ {alias}]), alias)

\* Fault: is_stale is read before the discard of line 262, not after it.
RefreshInner_stale_first(m, f, alias) ==
    LET stale == IsStaleIn(m.def, m.req, m.nss, alias)
        m1 == [m EXCEPT !.nss[alias] = @ \ {f.sym},
                        !.def[alias] = IF stale THEN @ ELSE cell_counter,
                        !.fa[alias] = IF stale THEN @ ELSE {}]
    IN propagate_refresh_to_namespace_parents(
           WithTop(m1, [f EXCEPT !.inner = @ \ {alias}]), alias)

RefreshInner(m, f, alias) ==
    LET nss1 == [m.nss EXCEPT ![alias] = @ \ {f.sym}]
        stale == IsStaleIn(m.def, m.req, nss1, alias)
        m1 == [m EXCEPT !.nss = nss1,
                        !.def[alias] = IF stale THEN @ ELSE cell_counter,
                        !.fa[alias] = IF stale THEN @ ELSE {}]
    IN propagate_refresh_to_namespace_parents(
           WithTop(m1, [f EXCEPT !.inner = @ \ {alias}]), alias)

\* ------------------------------------------------------------------ Init
NoVisits == [r \in Roles |-> [s \in Syms |-> 0]]

Snapshot == [def |-> defined_cell_num, req |-> required_cell_num,
             fa |-> fresher_ancestors, nss |-> namespace_stale_symbols,
             upd |-> updated_symbols]

\* The graphs a behaviour starts from, each as the first cells of a notebook
\* leave it, nothing stale: ob gives every symbol's identity (NoId: the symbol
\* does not exist), scp its containing scope, cl the cell that defined it, ns
\* the identities that have a namespace, cln the namespaces cloned from a
\* class, es the dependency edges <<parent, child>>, dw the symbols that may
\* have warnings disabled.
Graph(ob, scp, cl, ns, cln, es, dw) ==
    [obj |-> ob, scope |-> scp, cells |-> cl, ns |-> ns, cloned |-> cln,
     edges |-> es, dw |-> dw]

\* a = ..; b = f(a); c = g(b)
Chain == Graph(<<1, 2, 3, NoId>>, <<Lexical, Lexical, Lexical, Lexical>>,
               <<1, 2, 2, 1>>, {}, {}, {<<1, 2>>, <<2, 3>>}, {2})
\* one cell: a and b computed from each other, c from a
Cycle == Graph(<<1, 2, 3, NoId>>, <<Lexical, Lexical, Lexical, Lexical>>,
               <<1, 1, 1, 1>>, {}, {}, {<<1, 2>>, <<2, 1>>, <<1, 3>>}, {3})
\* p = ..; d = {}; d.x = f(p)
Container == Graph(<<1, 2, 3, NoId>>, <<Lexical, 1, Lexical, Lexical>>,
                   <<2, 2, 1, 1>>, {1}, {}, {<<3, 2>>}, {1})
\* a = ..; b = f(a) a container; b.m = g(a)
ContainerDep == Graph(<<1, 2, 3, NoId>>, <<Lexical, Lexical, 2, Lexical>>,
                      <<1, 2, 2, 1>>, {2}, {}, {<<1, 2>>, <<1, 3>>}, {3})
\* p = ..; d = {}; d.x = {}; d.x.y = f(p)
Nested == Graph(<<1, 2, 3, 4>>, <<Lexical, 1, 2, Lexical>>,
                <<2, 2, 2, 1>>, {1, 2}, {}, {<<4, 3>>}, {})
\* d = {}; e = d; d.x = ..; d.y = f(d.x)
AliasedContainer == Graph(<<1, 1, 3, 4>>, <<Lexical, Lexical, 1, 1>>,
                          <<1, 1, 1, 2>>, {1}, {}, {<<3, 4>>}, {})
\* p = ..; d = {}; d.self = d, computed from p
SelfContaining == Graph(<<1, 1, 3, NoId>>, <<Lexical, 1, Lexical, Lexical>>,
                        <<2, 2, 1, 1>>, {1}, {}, {<<3, 2>>}, {})
\* class C; i1 = C(); i2 = C(); i1.x = ..; C computed from i1.x
ClassInstances == Graph(<<1, 2, 3, 4>>, <<Lexical, Lexical, Lexical, 2>>,
                        <<1, 2, 2, 2>>, {1, 2, 3}, {<<2, 1>>, <<3, 1>>},
                        {<<1, 2>>, <<1, 3>>, <<4, 1>>}, {})

\* d = {}; d.x = []; then z = d.x; c = f(z)
AliasedMember == Graph(<<1, 2, 2, 4>>, <<Lexical, 1, Lexical, Lexical>>,
                       <<1, 1, 2, 2>>, {1}, {}, {<<3, 4>>}, {})

\* p = ..; d = {}; d.x = f(p) a container; d.x.y = g(p)
NestedDep == Graph(<<1, 2, 3, 4>>, <<Lexical, 1, 2, Lexical>>,
                   <<2, 2, 2, 1>>, {1, 2}, {}, {<<4, 2>>, <<4, 3>>}, {2})

\* p = ..; d = {}; d.m = {}; d.m.back = d, computed from p
MutualContainers == Graph(<<1, 2, 1, 4>>, <<Lexical, 1, 2, Lexical>>,
                          <<2, 2, 2, 1>>, {1, 2}, {}, {<<4, 3>>}, {})

Graphs == {Chain, Cycle, Container, ContainerDep, Nested, AliasedContainer,
           SelfContaining, ClassInstances, AliasedMember, NestedDep,
           MutualContainers}

\* No statement is being traced.
NoStatement == [kind |-> "none"]

\* ---- TraceState.__init__ (trace_state.py 11-18). The fields after extra are
\* history: the line that was current when each open call was processed, the
\* returns made, whether each return restored that line, whether every event
\* carried a code line, whether moreover every call came from a frame with a
\* current line, and the exception raised.
NoLine == 0                    \* None where a CodeLine is expected
NoPosition == 0                \* None where a position is expected
NewTraceState ==
    [call_depth |-> 0, stack |-> <<>>, cur_frame_last_line |-> NoLine,
     last_event |-> "None", prev_position |-> NoPosition,
     made |-> {}, extra |-> {},
     open |-> <<>>, returns |-> 0, restored |-> TRUE, carried |-> TRUE,
     wellformed |-> TRUE,
     error |-> "none", events |-> 0]

Max(S) == CHOOSE x \in S : \A y \in S : y <= x

Init ==
    /\ same_cell_exempt \in BOOLEAN
    /\ \E g \in Graphs :
          /\ live = {s \in Syms : g.obj[s] # NoId}
          /\ cell_counter = Max({g.cells[s] : s \in live})
          /\ obj_id = [s \in Syms |-> g.obj[s]]
          /\ cached_obj_id = [s \in Syms |-> g.obj[s]]
          /\ aliases = [i \in Ids |-> {s \in Syms : g.obj[s] = i}]
          /\ containing_scope = [s \in Syms |-> g.scope[s]]
          /\ namespaces = g.ns
          /\ cloned_from = [i \in Ids |-> IF \E e \in g.cloned : e[1] = i
                                          THEN (CHOOSE e \in g.cloned : e[1] = i)[2]
                                          ELSE NoId]
          /\ children = [s \in Syms |-> {c \in Syms : <<s, c>> \in g.edges}]
          /\ \E dw \in {{}} \cup {{s} : s \in g.dw} :
                disable_warnings = [s \in Syms |-> s \in dw]
          /\ defined_cell_num = [s \in Syms |-> g.cells[s]]
          /\ required_cell_num = [s \in Syms |-> g.cells[s]]
          /\ max_defined_timestamp =
                [i \in Ids |-> IF i \in g.ns
                               THEN Max({g.cells[s] : s \in {x \in live : g.scope[x] = i
                                                                \/ g.obj[x] = i}})
                               ELSE 0]
          /\ updated_symbols = {s \in live : g.cells[s] = cell_counter}
    /\ fresher_ancestors = [s \in Syms |-> {}]
    /\ namespace_stale_symbols = [s \in Syms |-> {}]
    /\ pc = "idle"
    /\ call = [kind |-> "none", sym |-> 1, mutated |-> FALSE, propagate |-> FALSE,
               rebound |-> FALSE, cell |-> 0]
    /\ seen = {}
    /\ rseen = {}
    /\ loop29 = {}
    /\ stack = <<>>
    /\ visits = NoVisits
    /\ pre = Snapshot
    /\ at_refresh = Snapshot
    /\ hist = <<>>
    /\ parents = [s \in Syms |-> {q \in Syms : s \in children[q]}]
    /\ tombstone = [s \in Syms |-> FALSE]
    /\ popped = {}
    /\ collected = {}
    /\ stmt = NoStatement
    /\ ts = NewTraceState

\* --------------------------------------------------------------- actions
\* The host starts a new evaluation unit.
AdvanceCell ==
    /\ pc = "idle"
    /\ cell_counter < MaxCell
    /\ cell_counter' = cell_counter + 1
    /\ updated_symbols' = {}
    /\ UNCHANGED <<host, tracing, graph, ids, fields, pc, call, loop29, machine, pre, at_refresh, hist>>

\* Identities a rebinding can give a symbol: the one it has (the same object
\* again) or the least identity that no symbol, cached identity or namespace
\* holds (a new object).
FreshIds == {i \in Ids : aliases[i] = {} /\ i \notin namespaces
                         /\ \A s \in Syms : cached_obj_id[s] # i}
RebindTargets(u) ==
    {obj_id[u]} \cup {i \in FreshIds : \A j \in FreshIds : i <= j}

\* The host binds u to new_id (update_obj_ref and the alias table's move), then
\* invokes UpdateProtocol(safety, u, mutated)(propagate): lines 24-26.
\* Fault: the identity test of line 25 is left out.
ShouldCollect_whenever_propagating(u, new_id, mutated, propagate) == propagate

\* lines 24-25: whether pass 1 runs, u being bound to new_id
ShouldCollect(u, new_id, mutated, propagate) ==
    propagate /\ (mutated \/ new_id # cached_obj_id[u])

\* The alias table after the host has rebound u: u leaves the set of the
\* identity it was cached under (the key collect_self_garbage uses too) and
\* joins the set of new_id.
MoveAlias(u, new_id) ==
    [i \in Ids |-> IF i = new_id THEN aliases[i] \cup {u}
                   ELSE IF i = cached_obj_id[u] THEN aliases[i] \ {u}
                   ELSE aliases[i]]

Invoke(u, new_id, mutated, propagate) ==
    /\ pc = "idle"
    /\ u \in live
    /\ mutated => new_id = obj_id[u]
    /\ new_id \in RebindTargets(u)
    /\ obj_id' = [obj_id EXCEPT ![u] = new_id]
    /\ aliases' = MoveAlias(u, new_id)
    /\ UNCHANGED cached_obj_id
    /\ call' = [kind |-> "update", sym |-> u, mutated |-> mutated,
                propagate |-> propagate, rebound |-> new_id # cached_obj_id[u],
                cell |-> cell_counter]
    /\ pre' = Snapshot
    /\ pc' = "collect"
    /\ seen' = {}
    /\ rseen' = {}
    /\ visits' = NoVisits
    /\ loop29' = {}
    /\ stack' = IF ShouldCollect(u, new_id, mutated, propagate)
                THEN collect_updated_symbols([stack |-> <<>>], u, ~mutated).stack
                ELSE <<>>
    /\ UNCHANGED <<host, tracing, cell_counter, graph, fields, updated_symbols, at_refresh, hist>>

UpdateCall(u, new_id, mutated, propagate) ==
    /\ Len(hist) < MaxOps
    /\ Invoke(u, new_id, mutated, propagate)

\* A statement binds a name for the first time: the host creates the symbol
\* in a lexical scope (DataSymbol.__init__: no cached identity, defined and
\* required in the current cell, nothing stale, no dependency yet), enters it
\* in the alias table and invokes the protocol on it, propagate=True.  The
\* object bound is a new one or one a live symbol already holds (`z = d`).
DefineTargets ==
    {i \in FreshIds : \A j \in FreshIds : i <= j} \cup {obj_id[s] : s \in live}

DefineCall(u, new_id) ==
    /\ pc = "idle"
    /\ Len(hist) < MaxOps
    /\ u \in Syms \ live /\ \A v \in Syms \ live : u <= v
    /\ new_id \in DefineTargets
    /\ obj_id' = [obj_id EXCEPT ![u] = new_id]
    /\ aliases' = [aliases EXCEPT ![new_id] = @ \cup {u}]
    /\ live' = live \cup {u}
    /\ cached_obj_id' = [cached_obj_id EXCEPT ![u] = NoId]
    /\ containing_scope' = [containing_scope EXCEPT ![u] = Lexical]
    /\ children' = [children EXCEPT ![u] = {}]
    /\ disable_warnings' = [disable_warnings EXCEPT ![u] = FALSE]
    /\ defined_cell_num' = [defined_cell_num EXCEPT ![u] = cell_counter]
    /\ required_cell_num' = [required_cell_num EXCEPT ![u] = cell_counter]
    /\ fresher_ancestors' = [fresher_ancestors EXCEPT ![u] = {}]
    /\ namespace_stale_symbols' = [namespace_stale_symbols EXCEPT ![u] = {}]
    /\ call' = [kind |-> "update", sym |-> u, mutated |-> FALSE,
                propagate |-> TRUE, rebound |-> TRUE, cell |-> cell_counter]
    /\ pre' = [Snapshot EXCEPT !.def[u] = cell_counter, !.req[u] = cell_counter,
                               !.fa[u] = {}, !.nss[u] = {}]
    /\ pc' = "collect"
    /\ seen' = {}
    /\ rseen' = {}
    /\ visits' = NoVisits
    /\ loop29' = {}
    /\ stack' = collect_updated_symbols([stack |-> <<>>], u, TRUE).stack
    /\ UNCHANGED <<host, tracing, cell_counter, same_cell_exempt, namespaces, cloned_from,
                   max_defined_timestamp, updated_symbols, at_refresh, hist>>

\* The host invokes the protocol once more on the symbol it has just updated,
\* in the same evaluation unit and with the same arguments, propagate=False.
UpdateAgain ==
    /\ hist # <<>>
    /\ Len(hist) < MaxOps + MaxRepeat
    /\ LET last == hist[Len(hist)]
       IN /\ ~last.propagate
          /\ last.cell = cell_counter
          /\ Invoke(last.sym, obj_id[last.sym], last.mutated, FALSE)

CollectStep ==
    /\ pc = "collect" /\ Running("collect")
    /\ \/ /\ Top.inner # {}
          /\ \E alias \in Top.inner : Commit(CollectInner(Cur, Top, alias))
       \/ /\ Top.inner = {}
          /\ \E dsym_alias \in Top.todo : Commit(CollectOuter(Cur, Top, dsym_alias))
    /\ UNCHANGED <<host, tracing, cell_counter, graph, ids, updated_symbols, pc, call, loop29, pre, at_refresh, hist>>

\* Fault: defined_cell_num of the updated symbol is bumped before pass 2.
UnionUpdated_bumping_defined ==
    /\ pc = "collect" /\ stack = <<>>
    /\ loop29' = seen
    /\ updated_symbols' = updated_symbols \cup seen
    /\ pc' = "deps"
    /\ defined_cell_num' = [defined_cell_num EXCEPT ![call.sym] = cell_counter]
    /\ UNCHANGED <<host, tracing, cell_counter, graph, ids, required_cell_num, fresher_ancestors,
                   namespace_stale_symbols, max_defined_timestamp, call, machine,
                   pre, at_refresh, hist>>

\* lines 27-28
UnionUpdated ==
    /\ pc = "collect" /\ stack = <<>>
    /\ loop29' = seen
    /\ updated_symbols' = updated_symbols \cup seen
    /\ pc' = "deps"
    /\ UNCHANGED <<host, tracing, cell_counter, graph, ids, fields, call, machine, pre, at_refresh, hist>>

\* lines 29-30
DepsOfUpdated ==
    /\ pc = "deps" /\ stack = <<>> /\ loop29 # {}
    /\ \E dsym \in loop29 :
          /\ loop29' = loop29 \ {dsym}
          /\ Commit(propagate_staleness_to_deps(Cur, dsym, TRUE))
    /\ UNCHANGED <<host, tracing, cell_counter, graph, ids, updated_symbols, pc, call, pre, at_refresh, hist>>

DepsStep ==
    /\ pc = "deps" /\ Running("deps")
    /\ \E child \in Top.todo : Commit(LoopDeps(Cur, Top, child))
    /\ UNCHANGED <<host, tracing, cell_counter, graph, ids, updated_symbols, pc, call, loop29, pre, at_refresh, hist>>

NsChildrenStep ==
    /\ pc = "deps" /\ Running("nschildren")
    /\ \E ns_child \in Top.todo : Commit(LoopDeps(Cur, Top, ns_child))
    /\ UNCHANGED <<host, tracing, cell_counter, graph, ids, updated_symbols, pc, call, loop29, pre, at_refresh, hist>>

NsParentsStep ==
    /\ pc = "deps" /\ Running("parents")
    /\ \/ /\ Top.inner # {}
          /\ \E child \in Top.inner : Commit(ParentsInner(Cur, Top, child))
       \/ /\ Top.inner = {}
          /\ \E containing_alias \in Top.todo :
                Commit(ParentsOuter(Cur, Top, containing_alias))
    /\ UNCHANGED <<host, tracing, cell_counter, graph, ids, updated_symbols, pc, call, loop29, pre, at_refresh, hist>>

\* line 34
RefreshUpdated ==
    /\ pc = "deps" /\ stack = <<>> /\ loop29 = {}
    /\ Commit(refresh(Cur, call.sym))
    /\ pc' = "refresh"
    /\ at_refresh' = Snapshot
    /\ UNCHANGED <<host, tracing, cell_counter, graph, ids, updated_symbols, call, loop29, pre, hist>>

RefreshStep ==
    /\ pc = "refresh" /\ Running("refresh")
    /\ \/ /\ Top.inner # {}
          /\ \E alias \in Top.inner : Commit(RefreshInner(Cur, Top, alias))
       \/ /\ Top.inner = {}
          /\ \E self_alias \in Top.todo : Commit(RefreshOuter(Cur, Top, self_alias))
    /\ UNCHANGED <<host, tracing, cell_counter, graph, ids, updated_symbols, pc, call, loop29, pre, at_refresh, hist>>

\* Fault: the cached identity is not refreshed after the update.
Return_without_cache_refresh ==
    /\ pc = "refresh" /\ stack = <<>>
    /\ pc' = "idle"
    /\ hist' = Append(hist, call)
    /\ UNCHANGED <<host, tracing, cell_counter, graph, ids, fields, updated_symbols,
                   call, loop29, machine, pre, at_refresh>>

\* The invocation returns; after an update the host records the identity the
\* symbol now has (_refresh_cached_obj).
Return ==
    /\ pc = "refresh" /\ stack = <<>>
    /\ pc' = "idle"
    /\ cached_obj_id' = IF call.kind = "update"
                        THEN [cached_obj_id EXCEPT ![call.sym] = obj_id[call.sym]]
                        ELSE cached_obj_id
    /\ hist' = Append(hist, call)
    /\ UNCHANGED <<host, tracing, cell_counter, graph, obj_id, aliases, fields, updated_symbols,
                   call, loop29, machine, pre, at_refresh>>

Next ==
    \/ AdvanceCell
    \/ \E u \in Syms, new_id \in Ids, mutated \in BOOLEAN, propagate \in BOOLEAN :
          UpdateCall(u, new_id, mutated, propagate)
    \/ \E u \in Syms, new_id \in Ids : DefineCall(u, new_id)
    \/ UpdateAgain
    \/ CollectStep
    \/ UnionUpdated
    \/ DepsOfUpdated
    \/ DepsStep
    \/ NsChildrenStep
    \/ NsParentsStep
    \/ RefreshUpdated
    \/ RefreshStep
    \/ Return

Spec == Init /\ [][Next]_vars

\* The steps of an invocation in flight: the interpreter runs a call to its end.
Run ==
    \/ CollectStep \/ UnionUpdated \/ DepsOfUpdated \/ DepsStep \/ NsChildrenStep
    \/ NsParentsStep \/ RefreshUpdated \/ RefreshStep \/ Return

FairSpec == Spec /\ WF_vars(Run)

\* ------------------------------------------------------ garbage collection
\* data_symbol.py 134-140; a scope that is garbage or out of reach is told to
\* the symbol by the same flag (Tombstone below).
is_garbage(s) == tombstone[s]

\* The value of s is deallocated (or its scope dies): the weak reference's
\* callback writes the tombstone, and the identity of s is from then on that
\* of None, under which the alias table holds nothing.
Tombstone(s) ==
    /\ pc = "idle"
    /\ s \in live /\ ~tombstone[s]
    /\ Cardinality({x \in Syms : tombstone[x]}) < MaxGarbage
    /\ tombstone' = [tombstone EXCEPT ![s] = TRUE]
    /\ obj_id' = [obj_id EXCEPT ![s] = NoId]
    /\ UNCHANGED <<cell_counter, live, same_cell_exempt, containing_scope, namespaces,
                   cloned_from, children, disable_warnings, cached_obj_id, aliases,
                   fields, updated_symbols, pc, call, loop29, machine, pre, at_refresh,
                   hist, parents, popped, collected, tracing>>

\* ---- DataSymbol.collect_self_garbage (151-162)
collect_self_garbage(s) ==
    LET children1 == [q \in Syms |-> IF q \in parents[s] THEN children[q] \ {s}
                                     ELSE children[q]]
        key == cached_obj_id[s]
        found == key # NoId /\ key \notin popped
    IN /\ children' = children1
       /\ parents' = [c \in Syms |-> IF c \in children1[s] THEN parents[c] \ {s}
                                     ELSE parents[c]]
       /\ aliases' = IF found THEN [aliases EXCEPT ![key] = @ \ {s}] ELSE aliases
       /\ popped' = IF found /\ aliases[key] \ {s} = {} THEN popped \cup {key}
                    ELSE popped

\* The checkpoint between two evaluation units collects a garbage symbol.
CollectGarbage(s) ==
    /\ pc = "idle"
    /\ s \in live /\ is_garbage(s)
    /\ \A r \in collected : r.sym # s
    /\ collect_self_garbage(s)
    /\ collected' = collected \cup
          {[sym |-> s, ns |-> namespaces,
            last |-> cached_obj_id[s] # NoId /\ aliases[cached_obj_id[s]] = {s}]}
    /\ UNCHANGED <<cell_counter, live, same_cell_exempt, containing_scope, namespaces,
                   cloned_from, disable_warnings, obj_id, cached_obj_id,
                   fields, updated_symbols, pc, call, loop29, machine, pre, at_refresh,
                   hist, tombstone, tracing>>

\* An update made while every symbol is still alive.
UpdateBeforeGarbage(u, new_id, mutated, propagate) ==
    /\ hist = <<>>
    /\ \A s \in Syms : ~tombstone[s]
    /\ Invoke(u, new_id, mutated, propagate)

UnitBeforeGarbage ==
    /\ hist = <<>>
    /\ \A s \in Syms : ~tombstone[s]
    /\ AdvanceCell

GCNext ==
    \/ UnitBeforeGarbage
    \/ \E u \in Syms, new_id \in Ids, mutated \in BOOLEAN, propagate \in BOOLEAN :
          UpdateBeforeGarbage(u, new_id, mutated, propagate)
    \/ CollectStep
    \/ UnionUpdated
    \/ DepsOfUpdated
    \/ DepsStep
    \/ NsChildrenStep
    \/ NsParentsStep
    \/ RefreshUpdated
    \/ RefreshStep
    \/ Return
    \/ \E s \in Syms : Tombstone(s)
    \/ \E s \in Syms : CollectGarbage(s)

\* Updates followed by the deaths and collections of a checkpoint.
GCSpec == Init /\ [][GCNext]_vars

\* ------------------------------------------------------ statement tracing
Names == {"x", "y", "z"}       \* names a statement can mention
NoName == "None"               \* None where a name is expected
NoSym == 0                     \* None where a DataSymbol is expected

\* Scope.lookup_data_symbol_by_name: the scope view maps a name to its symbol,
\* or to None when it holds no symbol of that name.
lookup_data_symbol_by_name(scope, name) == scope[name]

\* safety.aliases.get(obj_id, set())
AliasesGet(i) == IF i \in Ids THEN aliases[i] ELSE {}

\* Fault: the result of the lookup is added without the test of line 60.
compute_rval_dependencies_unchecked(st, rval_symbol_refs) ==
    {lookup_data_symbol_by_name(st.scope, name) : name \in rval_symbol_refs \ {NoName}}
        \cup st.call_point_deps \cup st.loaded

\* ---- TraceStatement.compute_rval_dependencies (48-62), rval_symbol_refs given
compute_rval_dependencies(st, rval_symbol_refs) ==
    LET found == {name \in rval_symbol_refs \ {NoName} :
                     lookup_data_symbol_by_name(st.scope, name) # NoSym}
        rval_data_symbols == {lookup_data_symbol_by_name(st.scope, name) : name \in found}
    IN rval_data_symbols \cup st.call_point_deps \cup st.loaded

\* lines 194-209, for one deep reference
DeepRefDsyms(st, dr) ==
    LET deep_ref_arg_dsyms ==
            {lookup_data_symbol_by_name(st.scope, arg) : arg \in dr.args} \ {NoSym}
        deep_ref_dc == IF dr.name = NoName THEN NoSym
                       ELSE lookup_data_symbol_by_name(st.scope, dr.name)
    IN deep_ref_arg_dsyms \cup
          (IF dr.name = NoName THEN AliasesGet(dr.obj)
           ELSE IF deep_ref_dc # NoSym /\ obj_id[deep_ref_dc] = dr.obj THEN {deep_ref_dc}
           ELSE AliasesGet(dr.obj))

\* ---- TraceStatement._gather_deep_ref_rval_dsyms (190-209)
gather_deep_ref_rval_dsyms(st) == UNION {DeepRefDsyms(st, dr) : dr \in st.deep_refs}

\* ---- TraceStatement._make_lval_data_symbols (153-188): the statement has one
\* edge, lval <- rvals; nothing was stored through an attribute or subscript
\* and no literal namespace was built; the frame holds the lval's value.
make_lval_data_symbols(st) ==
    LET deep_rval_deps == gather_deep_ref_rval_dsyms(st)
        rval_deps == compute_rval_dependencies(st, st.rvals \ {st.lval}) \cup deep_rval_deps
    IN IF st.lval = NoName THEN st
       ELSE [st EXCEPT !.upserts = @ \cup {[name |-> st.lval, deps |-> rval_deps,
                                            overwrite |-> st.lval \notin st.rvals]}]

\* lines 216-244: update_deps on every alias of a mutated object
HandleMutations(st) ==
    [st EXCEPT !.updates = @ \cup
        UNION {{[sym |-> mutated_sym,
                 deps |-> {lookup_data_symbol_by_name(st.scope, arg) : arg \in mu.args}
                             \ {NoSym}] : mutated_sym \in aliases[mu.obj]}
               : mu \in st.mutations}]

\* ---- TraceStatement.handle_dependencies (211-250)
handle_dependencies(st) ==
    LET st1 == [st EXCEPT !.handled = @ + 1]
    IN IF ~st.dependency_tracking_enabled THEN st1
       ELSE LET st2 == HandleMutations(st1)
            IN IF st.has_lval THEN make_lval_data_symbols(st2) ELSE st2

\* attr_trace_manager.reset() and safety._namespace_gc() (258-259)
ResetAndGc(st) ==
    [st EXCEPT !.deep_refs = {}, !.mutations = {}, !.loaded = {},
               !.resets = @ + 1, !.gcs = @ + 1]

\* Fault: the hook does not test finished.
finished_execution_hook_unguarded(st) ==
    ResetAndGc(handle_dependencies([st EXCEPT !._marked_finished = TRUE]))

\* ---- TraceStatement.finished_execution_hook (252-260)
finished_execution_hook(st) ==
    IF st._marked_finished THEN st
    ELSE ResetAndGc(handle_dependencies([st EXCEPT !._marked_finished = TRUE]))

MaxHooks == 3     \* calls of finished_execution_hook on a statement

\* What the statement can find around it: at most one deep reference and one
\* mutation, recorded by the attribute tracer while the statement ran.
DeepRefs == {{}} \cup {{[obj |-> o, name |-> n, args |-> a]} :
                          o \in {1, 5}, n \in {NoName, "x"}, a \in {{}, {"y"}}}
Mutations == {{}} \cup {{[obj |-> 1, args |-> a]} : a \in {{}, {"x"}}}

\* The symbols the statement's scope holds under some name.
ScopeSyms == {1, 3}

\* ---- TraceStatement.__init__ (26-34): the tracer reaches a statement
NewStatement ==
    /\ pc = "idle" /\ stmt = NoStatement
    /\ \E scope \in [Names -> ScopeSyms \cup {NoSym}], lval \in Names \cup {NoName},
          rvals \in SUBSET (Names \cup {NoName}), has_lval \in BOOLEAN,
          enabled \in BOOLEAN, cpd \in {{}} \cup {{s} : s \in live \ ScopeSyms},
          deep \in DeepRefs, mu \in Mutations :
          stmt' = [kind |-> "stmt", scope |-> scope, lval |-> lval, rvals |-> rvals,
                   has_lval |-> has_lval, dependency_tracking_enabled |-> enabled,
                   call_point_deps |-> cpd, loaded |-> {}, deep_refs |-> deep,
                   mutations |-> mu, _marked_finished |-> FALSE,
                   handled |-> 0, upserts |-> {}, updates |-> {}, resets |-> 0,
                   gcs |-> 0, hooks |-> 0, first |-> <<>>, given |-> deep]
    /\ UNCHANGED <<cell_counter, graph, ids, fields, updated_symbols, pc, call, loop29,
                   machine, pre, at_refresh, hist, host, ts>>

\* The tracer calls the hook (once the statement is done, and again whenever
\* it sees the statement's frame return).
FinishedExecutionHook ==
    /\ pc = "idle" /\ stmt # NoStatement
    /\ stmt.hooks < MaxHooks
    /\ LET st == finished_execution_hook(stmt)
       IN stmt' = [st EXCEPT !.hooks = @ + 1,
                             !.first = IF stmt.hooks = 0
                                       THEN <<[upserts |-> st.upserts, updates |-> st.updates]>>
                                       ELSE @]
    /\ UNCHANGED <<cell_counter, graph, ids, fields, updated_symbols, pc, call, loop29,
                   machine, pre, at_refresh, hist, host, ts>>

StmtInit ==
    /\ Init
    /\ same_cell_exempt
    /\ \A s \in Syms : ~disable_warnings[s]
    /\ obj_id = <<1, 1, 3, 4>>

StmtNext ==
    \/ NewStatement
    \/ FinishedExecutionHook

\* One statement traced in the session AliasedContainer has left.
StmtSpec == StmtInit /\ [][StmtNext]_vars

\* ------------------------------------------------------------ TraceState
Lines == {1, 2}                \* the CodeLine objects of the cell
Positions == {1, 2}            \* get_position(frame): (cell number, line number)
Events == {"line", "call", "return"}
MaxEvents == 6

\* TraceState._prev_line_done_executing
prev_line_done_executing(t, event, position) ==
    IF event \notin {"line", "return"} \/ t.last_event = "call" THEN FALSE
    ELSE position # t.prev_position

\* what is left of update_hook when the code_line is there, lines 39-53
HandleEvent(t, event, code_line) ==
    IF event = "line" THEN
        [t EXCEPT !.cur_frame_last_line = code_line, !.last_event = event]
    ELSE IF event = "call" THEN
        [t EXCEPT !.stack = Append(@, t.cur_frame_last_line),
                  !.cur_frame_last_line = NoLine, !.last_event = event]
    ELSE IF t.stack = <<>> THEN [t EXCEPT !.error = "IndexError"]
    ELSE LET ret_line == t.stack[Len(t.stack)]
             t1 == [t EXCEPT !.stack = SubSeq(@, 1, Len(@) - 1)]
         IN IF ret_line = NoLine THEN [t1 EXCEPT !.error = "AssertionError"]
            ELSE [t1 EXCEPT !.cur_frame_last_line = ret_line,
                            !.extra = @ \cup {<<ret_line, code_line>>},
                            !.last_event = event]

\* TraceState.update_hook
update_hook(t, event, position, code_line) ==
    LET line == t.cur_frame_last_line
        t1 == IF prev_line_done_executing(t, event, position) /\ line # NoLine
              THEN [t EXCEPT !.made = @ \cup {line}] ELSE t
        t2 == [t1 EXCEPT !.prev_position = position]
    IN IF code_line = NoLine THEN t2
       ELSE HandleEvent(t2, event, code_line)

\* The tracer passes one event to update_hook. A return is passed only while
\* a call is open; an exception raised by the hook ends the trace.
UpdateHook(event, position, code_line) ==
    /\ pc = "idle"
    /\ ts.error = "none"
    /\ ts.events < MaxEvents
    /\ event = "return" => ts.open # <<>>
    /\ LET t == update_hook(ts, event, position, code_line)
           n == Len(ts.open)
       IN ts' = [t EXCEPT
              !.events = @ + 1,
              !.open = IF event = "call" THEN Append(@, ts.cur_frame_last_line)
                       ELSE IF event = "return" THEN SubSeq(@, 1, n - 1)
                       ELSE @,
              !.returns = IF event = "return" THEN @ + 1 ELSE @,
              !.restored = IF event = "return"
                           THEN @ /\ t.cur_frame_last_line = ts.open[n]
                           ELSE @,
              !.carried = @ /\ code_line # NoLine,
              !.wellformed = /\ @
                             /\ code_line # NoLine
                             /\ event = "call" => ts.cur_frame_last_line # NoLine]
    /\ UNCHANGED <<cell_counter, graph, ids, fields, updated_symbols, pc, call,
                   loop29, machine, pre, at_refresh, hist, host, stmt>>

\* the session the cell is traced in
TraceInit == StmtInit

TraceNext ==
    \E event \in Events, position \in Positions, code_line \in Lines \cup {NoLine} :
        UpdateHook(event, position, code_line)

TraceSpec == TraceInit /\ [][TraceNext]_vars

\* ---------------------------------------------------------------- claims
\* An update invocation has just returned, in the current evaluation unit.
Returned == pc = "idle" /\ call.kind = "update" /\ call.cell = cell_counter

staleReasons(s) == fresher_ancestors[s] \cup namespace_stale_symbols[s]

\* update(a) has rebound a to a new identity in this unit; b is a dependency
\* child of a with warnings enabled, not updated in this unit, defined in an
\* earlier unit than this one and a later unit than a.
C1_Case(a, b) ==
    /\ Returned /\ call.sym = a /\ call.propagate /\ ~call.mutated /\ call.rebound
    /\ b \in children[a] /\ b # a
    /\ ~disable_warnings[b]
    /\ b \notin updated_symbols
    /\ pre.def[a] < pre.def[b] /\ pre.def[b] < cell_counter

\* C1 (as claimed): if b has a as a dependency parent, a was defined in one
\* unit, b in a later one, and update(a) rebinds a in a still later unit, then
\* when the update returns b is stale and a is among b's fresher ancestors,
\* hence among its stale reasons.
C1_CrossUnitPropagation ==
    \A a \in live, b \in live :
        C1_Case(a, b) => /\ is_stale(b)
                         /\ a \in fresher_ancestors[b]
                         /\ a \in staleReasons(b)

\* The symbols update was invoked on in the current evaluation unit.
DefinedThisUnit == {hist[i].sym : i \in {j \in 1..Len(hist) : hist[j].cell = cell_counter}}

\* The exemption is enabled; a and b were both defined in the current unit, b
\* depends on a, and no invocation is in flight.
C2_Case(a, b) ==
    /\ Returned /\ same_cell_exempt
    /\ a # b /\ b \in children[a]
    /\ {a, b} \subseteq DefinedThisUnit

C3_Case == Returned /\ call.mutated /\ call.propagate

\* C3: when update(u, mutated=true, propagate=true) returns, every symbol in
\* the alias set of u's identity, not only u, is in the updated-this-round set.
C3_AliasSymmetry ==
    C3_Case => aliases[obj_id[call.sym]] \subseteq updated_symbols

\* Another alias of u's identity entered the set with this invocation.
C3_Witness ==
    /\ C3_Case
    /\ \E s \in aliases[obj_id[call.sym]] : s # call.sym /\ s \notin pre.upd

\* i is an instance of class C: a dependency child of C whose namespace was
\* cloned from C's.
IsInstanceOf(i, C) ==
    /\ i # C /\ i \in children[C]
    /\ obj_id[i] \in namespaces /\ obj_id[C] \in namespaces
    /\ cloned_from[obj_id[i]] = obj_id[C]

\* The edge from C is all that ties i to the rest of the graph.
OnlyThroughClass(i, C) ==
    /\ \A p \in live : i \in children[p] => p = C
    /\ children[i] = {}
    /\ containing_scope[i] = Lexical
    /\ aliases[obj_id[i]] = {i}
    /\ NsMembers(obj_id[i]) = {}

C4_Case(C, i1, i2) ==
    /\ call.kind = "update"
    /\ i1 # i2 /\ IsInstanceOf(i1, C) /\ IsInstanceOf(i2, C)
    /\ OnlyThroughClass(i2, C)
    /\ call.sym = i1 \/ containing_scope[call.sym] = obj_id[i1]

\* C4: with i1 and i2 instances of class C (their namespaces cloned from C's),
\* and i2 tied to i1 through C alone, an update of i1 or of a member of i1
\* never changes i2's required_cell_num, fresher_ancestors or
\* namespace_stale_symbols, at any step of the invocation.
C4_ClassInstanceIsolation ==
    \A C \in live, i1 \in live, i2 \in live :
        C4_Case(C, i1, i2) =>
            /\ required_cell_num[i2] = pre.req[i2]
            /\ fresher_ancestors[i2] = pre.fa[i2]
            /\ namespace_stale_symbols[i2] = pre.nss[i2]

\* The update of a member of i1 reached the class and marked it stale.
C4_Witness ==
    \E C \in live, i1 \in live, i2 \in live :
        /\ C4_Case(C, i1, i2) /\ Returned
        /\ call.sym \in fresher_ancestors[C]
        /\ "deps" \in {r \in Roles : visits[r][C] > 0}

\* refresh(x) has run; when it began, b, an alias of the namespace that
\* contains x, had x and nothing else in namespace_stale_symbols and its
\* defined_cell_num was not below its required_cell_num.
C5_Case(x, b) ==
    /\ Returned /\ call.sym = x
    /\ ~disable_warnings[b]
    /\ containing_scope[x] # Lexical /\ b \in aliases[containing_scope[x]]
    /\ at_refresh.nss[b] = {x}
    /\ at_refresh.def[b] >= at_refresh.req[b]

\* C5: when refresh(x) has run, every container b that was stale only because
\* x was in its namespace_stale_symbols is no longer stale; this holds for
\* every alias of the namespace that contains x.
C5_RefreshHealsAncestors ==
    \A x \in live, b \in live : C5_Case(x, b) => ~is_stale(b)

\* Two aliases of the containing namespace were stale because of x alone.
C5_Witness ==
    \E x \in live, b \in live, c \in live :
        /\ b # c /\ b # x /\ c # x
        /\ C5_Case(x, b) /\ C5_Case(x, c)

\* Within one invocation no symbol is processed more than once in any role.
C6_OncePerRole == \A r \in Roles, s \in Syms : visits[r][s] <= 1

\* C6: every invocation of update (all its passes, refresh included) runs to
\* its return, on graphs with dependency cycles and with namespaces that hold
\* an alias of themselves, and within one invocation each symbol is processed
\* at most once in each traversal role.
C6_Termination ==
    /\ []C6_OncePerRole
    /\ [](pc # "idle" => <>(pc = "idle"))

\* An invocation that went round a namespace holding an alias of itself has
\* returned: the symbol is its own container and was processed as a dependent,
\* as a namespace child's parent and as a namespace parent.
C6_Witness ==
    \E s \in live :
        /\ containing_scope[s] = obj_id[s]
        /\ visits["deps"][s] = 1 /\ visits["parents"][s] = 1
        /\ visits["nschildren"][s] = 1
        /\ pc = "idle" /\ call.kind = "update"

\* The last two invocations were update(u, mutated, propagate=false) on the
\* same u with the same mutated, in the current unit, and both have returned.
C7_Case ==
    /\ Returned /\ Len(hist) >= 2
    /\ LET h1 == hist[Len(hist) - 1]
           h2 == hist[Len(hist)]
       IN /\ h1.kind = "update" /\ h2.kind = "update"
          /\ h1.sym = h2.sym /\ h1.mutated = h2.mutated
          /\ ~h1.propagate /\ ~h2.propagate
          /\ h1.cell = h2.cell

\* C7: within one evaluation unit, a second update(u, mutated, propagate=false)
\* right after a first one leaves defined_cell_num, required_cell_num,
\* fresher_ancestors and namespace_stale_symbols of every symbol, and the
\* updated-this-round set, as the first left them.
C7_Idempotence == C7_Case => Snapshot = pre

\* The two invocations follow a propagating update that rebound a dependency
\* parent of u, a member of a namespace: the first of them found u stale and
\* its container stale on u's account, and healed both.
C7_Witness ==
    /\ C7_Case /\ Len(hist) = 3
    /\ hist[1].propagate /\ hist[1].rebound /\ hist[1].sym # call.sym
    /\ call.sym \in children[hist[1].sym]
    /\ containing_scope[call.sym] # Lexical
    /\ aliases[containing_scope[call.sym]] # {}
    /\ ~disable_warnings[call.sym]

\* C8: when update(u, mutated, propagate) returns, u has no fresher ancestors
\* and no stale namespace symbols, and was defined and is required at the
\* current timestamp, so u is not stale.
C8_UpdatedSymbolFresh ==
    Returned =>
        /\ fresher_ancestors[call.sym] = {}
        /\ namespace_stale_symbols[call.sym] = {}
        /\ defined_cell_num[call.sym] = cell_counter
        /\ required_cell_num[call.sym] = cell_counter
        /\ ~is_stale(call.sym)

\* The symbol was stale in both ways when the update began.
C8_Witness ==
    /\ Returned
    /\ pre.nss[call.sym] # {}
    /\ pre.def[call.sym] < pre.req[call.sym]

\* C9 (as claimed): between invocations, no symbol of the updated-this-round
\* set is stale.
C9_UpdatedNotStale ==
    pc = "idle" => \A s \in updated_symbols : ~is_stale(s)

\* What should_mark_stale(d, u) is said to return.
C10_Claimed(d, u) ==
    ~ \/ disable_warnings[d]
      \/ u = d
      \/ /\ same_cell_exempt
         /\ defined_cell_num[u] = cell_counter
         /\ defined_cell_num[d] = cell_counter

\* C10 (as claimed): for the updated symbol u of an invocation and any symbol
\* d, before u's defined_cell_num is bumped, should_mark_stale(d, u) is false
\* exactly when d has warnings disabled, or u is d, or the exemption
\* is enabled and u and d were both defined in the current evaluation unit;
\* in particular it is true when both were defined in one earlier unit.
C10_ShouldMarkStale ==
    pc = "deps" =>
        \A d \in live : should_mark_stale(d, call.sym) = C10_Claimed(d, call.sym)

\* C11: in every reachable state, is_stale(s) is true exactly when
\* disable_warnings of s is unset and (defined_cell_num < required_cell_num
\* or namespace_stale_symbols is not empty); a symbol with disable_warnings
\* set is never reported stale.
C11_IsStale ==
    \A s \in live :
        /\ is_stale(s) = /\ ~disable_warnings[s]
                         /\ \/ defined_cell_num[s] < required_cell_num[s]
                            \/ namespace_stale_symbols[s] # {}
        /\ disable_warnings[s] => ~is_stale(s)

\* A symbol with warnings disabled holds a stale member, and a symbol with
\* warnings enabled is stale by its timestamps.
C11_Witness ==
    /\ \E s \in live : disable_warnings[s] /\ namespace_stale_symbols[s] # {}
    /\ \E s \in live : ~disable_warnings[s]
                       /\ defined_cell_num[s] < required_cell_num[s]

\* C12 (as claimed): whenever no invocation is in flight, every symbol m in
\* namespace_stale_symbols of a symbol s is a member of s's namespace and is
\* itself stale.
C12_NamespaceStaleSound ==
    pc = "idle" =>
        \A s \in live : \A m \in namespace_stale_symbols[s] :
            /\ containing_scope[m] = obj_id[s]
            /\ is_stale(m)

UnitOps == {j \in 1..Len(hist) : hist[j].cell = cell_counter}

\* The unit's one statement bound or rebound the lexical-scope symbol a,
\* propagate=True, and the updated-this-round set was empty when it began.
C14_Case(a) ==
    /\ Returned /\ call.sym = a
    /\ Cardinality(UnitOps) = 1 /\ pre.upd = {}
    /\ ~call.mutated /\ call.propagate
    /\ containing_scope[a] = Lexical

\* C14 (as claimed): after a unit whose only statement binds or rebinds the
\* top-level symbol a, the updated-this-round set is exactly {a}.
C14_UpdatedIsTheSymbol ==
    \A a \in live : C14_Case(a) => updated_symbols = {a}

\* C14 (amended): the set is exactly {a} when the statement gave a an identity
\* other than its cached one (a first definition, or a rebinding to another
\* object), and is empty when a was rebound to the object it already held.
C14_UpdatedIfRebound ==
    \A a \in live :
        C14_Case(a) => updated_symbols = IF call.rebound THEN {a} ELSE {}

\* a was rebound to a new object in a unit that follows one in which another
\* symbol was updated.
C14_Witness ==
    \E a \in live :
        /\ C14_Case(a) /\ call.rebound
        /\ Len(hist) = 2 /\ hist[1].cell < cell_counter
        /\ hist[1].sym # a /\ hist[1].propagate /\ hist[1].rebound

\* a was defined for the first time by the unit's one statement.
C14_FirstDefinition ==
    \E a \in live : C14_Case(a) /\ pre.def[a] = cell_counter

\* S with every symbol that aliases the namespace containing a symbol of S.
Enclosing(S) ==
    S \cup {a \in live : \E s \in S : /\ containing_scope[s] # Lexical
                                      /\ a \in aliases[containing_scope[s]]}

\* The unit's one statement assigned to, or mutated in place, the namespace
\* member m, propagate=True; the updated-this-round set was empty before.
C15_Case(m) ==
    /\ Returned /\ call.sym = m
    /\ Cardinality(UnitOps) = 1 /\ pre.upd = {}
    /\ call.propagate
    /\ containing_scope[m] # Lexical

\* C15 (as claimed): after a unit that assigns to or mutates a member m nested
\* inside containers, the updated-this-round set is exactly m plus every symbol
\* aliasing each transitively enclosing namespace, and nothing else.
C15_UpdatedHierarchy ==
    \A m \in live :
        C15_Case(m) => updated_symbols = Enclosing(Enclosing(Enclosing({m})))

\* C15 (amended): when m was mutated in place, or assigned an object whose
\* identity differs from its cached one, the set is exactly m, plus (for a
\* mutation) the other aliases of m's identity, plus every symbol aliasing a
\* namespace that transitively encloses one of these; when m was assigned the
\* object it already held, the set is empty.
C15_UpdatedClosure ==
    \A m \in live :
        C15_Case(m) =>
            updated_symbols =
                IF call.mutated
                THEN Enclosing(Enclosing(Enclosing(aliases[obj_id[m]])))
                ELSE IF call.rebound
                THEN Enclosing(Enclosing(Enclosing({m})))
                ELSE {}

\* d.x.y, two namespaces deep, was updated: the set holds it, d.x and d.
C15_Witness ==
    \E m \in live, c \in live, d \in live :
        /\ C15_Case(m)
        /\ m # c /\ c # d /\ m # d
        /\ containing_scope[m] = obj_id[c] /\ containing_scope[c] = obj_id[d]
        /\ containing_scope[d] = Lexical
        /\ updated_symbols = {m, c, d}

\* C16: while update(u, ...) is in its passes 1 to 3, defined_cell_num of u
\* keeps the value it had when the invocation began, so every
\* should_mark_stale(d, u) of the invocation reads u's old timestamp; it is
\* the current timestamp once refresh has run, after the last dependent.
C16_RefreshLast ==
    /\ pc \in {"collect", "deps"} => defined_cell_num[call.sym] = pre.def[call.sym]
    /\ pc = "refresh" \/ Returned => defined_cell_num[call.sym] = cell_counter

\* Pass 2 is under way, a dependent has been marked against u, and u was
\* defined in an earlier unit.
C16_Witness ==
    /\ pc = "deps" /\ stack # <<>>
    /\ pre.def[call.sym] < cell_counter
    /\ \E d \in live : d # call.sym /\ call.sym \in fresher_ancestors[d]
                       /\ required_cell_num[d] = cell_counter
                       /\ pre.req[d] < cell_counter

\* The symbols pass 1 of the invocation collected.
Collected == {s \in live : visits["collect"][s] > 0}

ChildStep(S) == S \cup UNION {children[s] : s \in S}

\* Everything reachable from S along dependency child edges (Syms has four
\* symbols, so three steps close the set).
Descendants(S) == ChildStep(ChildStep(ChildStep(S)))

\* should_mark_stale(d, u) as pass 2 evaluates it, against u's definition
\* timestamp at the start of the invocation.
ShouldMarkAtEntry(d, u) ==
    /\ ~disable_warnings[d]
    /\ d # u
    /\ ~same_cell_exempt \/ pre.def[u] # pre.def[d]

\* The invocation has returned, pass 1 collected something, and d is reachable
\* from a collected symbol along child edges, was not updated this round and
\* is to be marked against u.
C17_Case(d) ==
    /\ Returned /\ call.propagate /\ Collected # {}
    /\ d \in Descendants(Collected)
    /\ d \notin updated_symbols
    /\ ShouldMarkAtEntry(d, call.sym)

\* C17 (as claimed): after an update that collected something, every such d
\* has required_cell_num equal to the current timestamp and the updated symbol
\* among its fresher ancestors, whatever happened to the symbols on the path.
C17_TransitiveContagion ==
    \A d \in live :
        C17_Case(d) => /\ required_cell_num[d] = cell_counter
                       /\ call.sym \in fresher_ancestors[d]

\* Pass 2 of the invocation marked d stale (update_protocol.py 100-103).
Marked(d) ==
    /\ call.propagate
    /\ visits["deps"][d] > 0
    /\ d \notin updated_symbols
    /\ ShouldMarkAtEntry(d, call.sym)

\* m is recorded in namespace_stale_symbols of every alias of its containing
\* namespace other than the updated symbol, and so is each of these aliases in
\* turn, up the containment chain (done: the symbols already walked through).
RECURSIVE RecordedUpward(_, _)
RecordedUpward(m, done) ==
    \/ m \in done
    \/ containing_scope[m] = Lexical
    \/ \A a \in aliases[containing_scope[m]] \ {call.sym} :
           /\ m \in namespace_stale_symbols[a]
           /\ RecordedUpward(a, done \cup {m})

\* C18 (as claimed): when update has marked a namespace member d stale then,
\* on return, d is in namespace_stale_symbols of every alias of its namespace
\* but the updated symbol, and each such alias is in that of every alias of
\* its own containing namespace, transitively.
C18_NamespaceParents ==
    Returned => \A d \in live :
        Marked(d) /\ containing_scope[d] # Lexical => RecordedUpward(d, {})

\* The first level of C18 alone: the member itself is recorded in every alias
\* of its namespace.
C18_DirectParents ==
    Returned => \A d \in live :
        Marked(d) /\ containing_scope[d] # Lexical =>
            \A a \in aliases[containing_scope[d]] \ {call.sym} :
                d \in namespace_stale_symbols[a]

\* Update has marked d, d has a namespace, and m is a direct member of it
\* that was not updated this round and is to be marked against u.
C19_Case(d, m) ==
    /\ Returned /\ Marked(d)
    /\ obj_id[d] \in namespaces
    /\ m \in NsMembers(obj_id[d])
    /\ m \notin updated_symbols
    /\ ShouldMarkAtEntry(m, call.sym)

\* C19 (as claimed): when update(u, ...) marks stale a symbol that has a namespace, every
\* direct member of the namespace that is not in the updated-this-round set
\* and is to be marked against u is marked in the same invocation: its
\* required_cell_num is the current timestamp and u is a fresher ancestor.
C19_NamespaceChildren ==
    \A d \in live, m \in live :
        C19_Case(d, m) => /\ required_cell_num[m] = cell_counter
                          /\ call.sym \in fresher_ancestors[m]

\* A member that no chain of dependency edges links to the collected symbols
\* was marked because its container was.
C19_Witness ==
    \E d \in live, m \in live :
        /\ C19_Case(d, m)
        /\ m \notin Descendants(Collected)
        /\ pre.req[m] < cell_counter
        /\ call.sym \notin pre.fa[m]
        /\ call.sym \in fresher_ancestors[m]

\* update(u, mutated=False, propagate=True) on a symbol held in a lexical
\* scope has returned.
C20_Case(u) ==
    /\ Returned /\ call.sym = u
    /\ ~call.mutated /\ call.propagate
    /\ containing_scope[u] = Lexical

\* No symbol but u has been marked since the invocation began: its
\* required_cell_num and fresher_ancestors are what they were, and nothing
\* was added to its namespace_stale_symbols (the refresh of u may remove).
C20_NothingMarked(u) ==
    \A s \in live \ {u} :
        /\ required_cell_num[s] = pre.req[s]
        /\ fresher_ancestors[s] = pre.fa[s]
        /\ namespace_stale_symbols[s] \subseteq pre.nss[s]

\* C20: update(u, mutated=False, propagate=True) on a lexically held u adds u
\* and no other symbol (in particular no other alias of u's identity) to the
\* updated-this-round set when u's identity differs from its cached identity;
\* when the two are equal it adds nothing to the set and marks nothing stale.
C20_RebindTouchesOnlyItself ==
    \A u \in live :
        C20_Case(u) =>
            IF call.rebound
            THEN updated_symbols = pre.upd \cup {u}
            ELSE updated_symbols = pre.upd /\ C20_NothingMarked(u)

\* A name was bound to an object another live symbol holds: only the name
\* itself entered the updated set, its alias did not.
C20_Witness ==
    \E u \in live, a \in live :
        /\ C20_Case(u) /\ call.rebound
        /\ a # u /\ a \in aliases[obj_id[u]]
        /\ u \in updated_symbols /\ u \notin pre.upd
        /\ a \notin updated_symbols

\* The object assigned is the one the symbol held: nothing was collected
\* although a dependent of the symbol was there to be marked.
C20_WitnessSameIdentity ==
    \E u \in live, d \in live :
        /\ C20_Case(u) /\ ~call.rebound
        /\ d \in children[u] /\ d \notin updated_symbols
        /\ ShouldMarkAtEntry(d, u)
        /\ pre.req[d] < cell_counter

\* C21 (as claimed): after collect_self_garbage(s), s is in the parents or children set of
\* no other symbol and in no set of the alias table; when s was the last
\* alias of its identity the table's entry is gone, and the namespaces
\* registered before the collection are all still registered.
C21_Tombstoning ==
    \A r \in collected :
        /\ \A q \in Syms \ {r.sym} : r.sym \notin parents[q] /\ r.sym \notin children[q]
        /\ \A i \in Ids : r.sym \notin aliases[i]
        /\ r.last => /\ cached_obj_id[r.sym] \in popped
                     /\ aliases[cached_obj_id[r.sym]] = {}
                     /\ r.ns \subseteq namespaces

\* C21 among the symbols not collected themselves: none of them keeps a
\* collected symbol in its parents or children, and the alias table and the
\* namespaces are as claimed.
C21_SeveredFromSurvivors ==
    \A r \in collected :
        /\ \A q \in Syms \ {x.sym : x \in collected} :
               r.sym \notin parents[q] /\ r.sym \notin children[q]
        /\ \A i \in Ids : r.sym \notin aliases[i]
        /\ r.last => /\ cached_obj_id[r.sym] \in popped
                     /\ aliases[cached_obj_id[r.sym]] = {}
                     /\ r.ns \subseteq namespaces

\* A dead symbol that had a dependency parent and a dependency child and was
\* the last alias of an identity with a namespace has been collected.
C21_Witness ==
    \E r \in collected :
        /\ r.last
        /\ cached_obj_id[r.sym] \in r.ns
        /\ obj_id[r.sym] # cached_obj_id[r.sym]
        /\ hist # <<>>

\* A collected symbol that was one of several aliases of its identity: the
\* identity keeps its entry and its other aliases.
C21_WitnessShared ==
    \E r \in collected :
        /\ ~r.last
        /\ aliases[cached_obj_id[r.sym]] # {}
        /\ cached_obj_id[r.sym] \notin popped

\* The names the finished statement reads (its lval apart) that the scope
\* view holds, and those it does not.
C22_Found == {n \in stmt.rvals \ {stmt.lval, NoName} : stmt.scope[n] # NoSym}
C22_Missing == {n \in stmt.rvals \ {stmt.lval, NoName} : stmt.scope[n] = NoSym}

\* C22: when a name a statement reads is not found in the scope view, the
\* dependencies computed for the statement hold existing symbols only (no
\* None stands for the missing name) and the symbols of the names that were
\* found are all among them.
C22_MissingLookup ==
    stmt # NoStatement =>
        \A up \in stmt.upserts :
            /\ NoSym \notin up.deps
            /\ up.deps \subseteq live
            /\ \A n \in C22_Found : stmt.scope[n] \in up.deps
            /\ up.deps = {stmt.scope[n] : n \in C22_Found} \cup stmt.call_point_deps
                            \cup UNION {DeepRefDsyms(stmt, dr) : dr \in stmt.given}

\* A statement that reads one name that is found and one that is missing has
\* had its dependencies computed.
C22_Witness ==
    /\ stmt # NoStatement
    /\ C22_Missing # {} /\ C22_Found # {}
    /\ \E up \in stmt.upserts : \E n \in C22_Found : stmt.scope[n] \in up.deps

\* C23 (as claimed): when refresh(s) has completed, for every symbol A other
\* than s, a symbol that was in A's namespace_stale_symbols when refresh was
\* entered and is still stale is still in A's namespace_stale_symbols.
C23_RefreshRemovesOnlyHealed ==
    Returned =>
        \A A \in live \ {call.sym} : \A m \in at_refresh.nss[A] :
            is_stale(m) => m \in namespace_stale_symbols[A]

Least(S) == CHOOSE x \in S : \A y \in S : x <= y

\* One step of the traversal machine, every loop yielding its least element.
LeastFirstStep(m) ==
    LET f == m.stack[Len(m.stack)]
        m1 == CASE f.fn = "collect" ->
                     IF f.inner # {} THEN CollectInner(m, f, Least(f.inner))
                     ELSE CollectOuter(m, f, Least(f.todo))
                [] f.fn = "deps" -> LoopDeps(m, f, Least(f.todo))
                [] f.fn = "nschildren" -> LoopDeps(m, f, Least(f.todo))
                [] f.fn = "parents" ->
                     IF f.inner # {} THEN ParentsInner(m, f, Least(f.inner))
                     ELSE ParentsOuter(m, f, Least(f.todo))
                [] f.fn = "refresh" ->
                     IF f.inner # {} THEN RefreshInner(m, f, Least(f.inner))
                     ELSE RefreshOuter(m, f, Least(f.todo))
    IN [m1 EXCEPT !.stack = Unwind(m1.stack, m1.seen)]

RECURSIVE LeastFirstRun(_)
LeastFirstRun(m) == IF m.stack = <<>> THEN m ELSE LeastFirstRun(LeastFirstStep(m))

\* The loop of lines 29-30 in ascending order.
RECURSIVE LeastFirstDeps(_, _)
LeastFirstDeps(m, todo) ==
    IF todo = {} THEN m
    ELSE LET m1 == propagate_staleness_to_deps(m, Least(todo), TRUE)
         IN LeastFirstDeps(LeastFirstRun([m1 EXCEPT !.stack = Unwind(m1.stack, m1.seen)]),
                           todo \ {Least(todo)})

Blank(snap) ==
    [stack |-> <<>>, seen |-> {}, rseen |-> {},
     def |-> snap.def, req |-> snap.req, fa |-> snap.fa, nss |-> snap.nss,
     mdt |-> max_defined_timestamp, visits |-> NoVisits]

Outcome(m, upd) == [def |-> m.def, req |-> m.req, fa |-> m.fa, nss |-> m.nss, upd |-> upd]

\* Passes 1 to 3 of the invocation in flight, run again from the fields it
\* started with, every set iterated in ascending order.
LeastFirstPasses ==
    LET m1 == IF call.propagate /\ (call.mutated \/ call.rebound)
              THEN LeastFirstRun(collect_updated_symbols(Blank(pre), call.sym, ~call.mutated))
              ELSE Blank(pre)
    IN Outcome(LeastFirstDeps(m1, m1.seen), pre.upd \cup m1.seen)

\* refresh() of the invocation, run again from the fields it was entered
\* with, every set iterated in ascending order.
LeastFirstRefresh ==
    LET m3 == refresh(Blank(at_refresh), call.sym)
    IN Outcome(LeastFirstRun([m3 EXCEPT !.stack = Unwind(m3.stack, m3.seen)]),
               at_refresh.upd)

\* The propagation passes are over and refresh() has not begun.
PassesDone == pc = "deps" /\ stack = <<>> /\ loop29 = {}

\* C24 (as claimed): the fields and the updated-this-round set an update
\* leaves do not depend on the order in which the sets were iterated: when the
\* propagation passes are over they are those of the run that iterates every
\* set in ascending order, and so they are when refresh() has returned.
C24_OrderIndependence ==
    /\ PassesDone => Snapshot = LeastFirstPasses
    /\ Returned => Snapshot = LeastFirstRefresh

\* Pass 1 and refresh() alone: the updated-this-round set, and what refresh()
\* makes of the fields it finds, do not depend on the order.
C24_CollectAndRefresh ==
    /\ PassesDone => updated_symbols = LeastFirstPasses.upd
    /\ Returned => Snapshot = LeastFirstRefresh

\* ---- C25
\* the three kinds of timestamp, none ahead of the clock
TimestampsBounded ==
    /\ \A s \in live : /\ defined_cell_num[s] <= cell_counter
                       /\ required_cell_num[s] <= cell_counter
    /\ \A ns \in namespaces : max_defined_timestamp[ns] <= cell_counter

\* one step lowers none of them, and does not turn the clock back
TimestampsNonDecreasing ==
    /\ cell_counter' >= cell_counter
    /\ \A s \in live : /\ defined_cell_num'[s] >= defined_cell_num[s]
                       /\ required_cell_num'[s] >= required_cell_num[s]
    /\ \A ns \in namespaces : max_defined_timestamp'[ns] >= max_defined_timestamp[ns]

\* C25: in every reachable state no symbol's defined_cell_num or
\* required_cell_num and no namespace's max_defined_timestamp exceeds
\* cell_counter(), and no step of an update or of a refresh (nor any other
\* step) lowers one of these fields.
C25_TimestampSanity == []TimestampsBounded /\ [][TimestampsNonDecreasing]_vars

\* an invocation issued in a later cell has returned having raised all three:
\* a symbol was redefined, a dependent was newly required, and a namespace whose
\* members were all defined earlier carries the current timestamp
C25_Witness ==
    /\ Returned
    /\ \E s \in live : pre.def[s] < defined_cell_num[s]
    /\ \E d \in live : /\ pre.req[d] < required_cell_num[d]
                       /\ defined_cell_num[d] < required_cell_num[d]
    /\ \E ns \in namespaces :
           /\ max_defined_timestamp[ns] = cell_counter
           /\ \A m \in NsMembers(ns) : pre.def[m] < cell_counter

\* ---- C26
\* C26: whatever line, call and return events update_hook is given, each
\* return after an earlier call, the hook raises nothing (the stack is not
\* empty and the popped entry is not None on a return), the stack holds one
\* entry per open call, and every return has set cur_frame_last_line to the
\* line that was current when its call was processed.
C26_TraceStackLifo ==
    /\ ts.error = "none"
    /\ Len(ts.stack) = Len(ts.open)
    /\ ts.restored

\* When every event carries a code line and every call is made from a frame
\* that has a current line, the stack is the lines of the open calls and the
\* returns restore them.
C26_LifoWhenLinePrecedesCall ==
    ts.wellformed => /\ ts.error = "none"
                     /\ ts.stack = ts.open
                     /\ ts.restored
                     /\ \A i \in 1..Len(ts.stack) : ts.stack[i] # NoLine

\* two nested calls have returned, each to its own line
C26_WitnessNested ==
    /\ ts.wellformed /\ ts.returns = 2 /\ ts.stack = <<>>
    /\ ts.extra = {<<1, 2>>, <<2, 1>>}

\* the assertion of line 48 has failed, every event having carried a code line
C26_WitnessAssert == ts.error = "AssertionError" /\ ts.carried /\ ts.events = 2

\* a return has popped an empty stack: its call carried no code line
C26_WitnessEmptyPop == ts.error = "IndexError" /\ ts.events = 2

\* ---- C27
\* C27: however many times finished_execution_hook has been called on a
\* statement, handle_dependencies has run exactly once if the hook was called
\* at all (and never before), the symbol upserts and the update invocations
\* are those the first call made, and finished is true from the first call on.
C27_HookIdempotent ==
    stmt # NoStatement =>
        /\ stmt.hooks = 0 => stmt.handled = 0 /\ ~stmt._marked_finished
        /\ stmt.hooks >= 1 =>
               /\ stmt.handled = 1
               /\ stmt._marked_finished
               /\ stmt.first = <<[upserts |-> stmt.upserts, updates |-> stmt.updates]>>
               /\ stmt.resets = 1 /\ stmt.gcs = 1

\* the hook was called again on a statement whose first call made an upsert
\* and an update
C27_Witness ==
    /\ stmt # NoStatement
    /\ stmt.hooks >= 2
    /\ stmt.upserts # {} /\ stmt.updates # {}


====
